---------------------------- MODULE Spec2Model ----------------------------
(***************************************************************************)
(* The phrase-segmentation conversion engine of libchewing                 *)
(* (src/src/conversion/chewing_conversion.rs): ChewingConversionEngine     *)
(* with its two entry points convert and convert_next.                     *)
(*                                                                         *)
(* Positions are 0-based as in the source; TLA+ sequences are 1-based, so  *)
(* the slice syllables[begin..end] is SubSeq(syllables, begin + 1, end).   *)
(* Option<T> is a sequence of length 0 (None) or 1 (Some).  A Vec is a     *)
(* sequence.  A PossiblePath is the sequence of its intervals.  The breaks *)
(* and selections of a ChineseSequence are held as sets: the code only     *)
(* asks whether some break / some selection satisfies a condition.         *)
(***************************************************************************)
EXTENDS Integers, Sequences, FiniteSets, TLC

VARIABLES
    dict,            \* ChewingConversionEngine.dict: syllables -> Vec<Phrase>
    segment,         \* the ChineseSequence handed to the call
    pc,              \* "ready" | "convert" | "convert_next" | "panic"
    next,            \* convert_next's argument `next`
    intervals,       \* convert: the Vec returned by find_intervals
    highest_score,   \* find_best_path: the table after the loop
    graph,           \* convert_next: the memoization table after the search
    paths,           \* convert_next: the Vec returned by find_all_paths
    trimmed_paths,   \* convert_next: trim_paths' result after sort()
    result           \* the Vec<Interval> the call returned

vars == <<dict, segment, pc, next, intervals, highest_score, graph, paths,
          trimmed_paths, result>>

---------------------------------------------------------------------------
(* Bounds of the model.                                                    *)

\* longest input (syllables) of the dictionary-shape family
MaxLen == 4
\* longest input of the family with breaks and selections
MaxConstrainedLen == 3
\* most selections in one input
MaxSelections == 2
\* largest `next` handed to convert_next
MaxNext == 3
\* the two frequencies phrases carry
LowFreq == 1
HighFreq == 5000

---------------------------------------------------------------------------
(* Values.                                                                 *)

None == <<>>
Some(x) == <<x>>

Min(a, b) == IF a < b THEN a ELSE b

AbsDiff(a, b) == IF a < b THEN b - a ELSE a - b

\* str.chars().skip(offset).take(len).collect()
SkipTake(str, offset, len) == SubSeq(str, offset + 1, Min(offset + len, Len(str)))

\* Dictionary::lookup_phrase on the map-backed dictionary: the phrases
\* stored under the syllables, in their stored order; none for a missing key.
lookup_phrase(d, syllables) ==
    IF syllables \in DOMAIN d THEN d[syllables] ELSE <<>>

\* impl From<PossibleInterval> for Interval
IntoInterval(it) == [start |-> it.start, end |-> it.end, phrase |-> it.phrase.str]

IntoIntervals(path) == [i \in 1..Len(path) |-> IntoInterval(path[i])]

---------------------------------------------------------------------------
(* find_best_phrase                                                        *)

BreakForbids_OffByOne(start, end, breaks) ==
    \E br \in breaks : br > start /\ br + 1 < end

\* some break point lies strictly inside (start, end)
BreakForbids(start, end, breaks) ==
    \E br \in breaks : br > start /\ br < end

\* a selection that is a sub-interval of [start, end) whose characters differ
SelectionRejects(phrase, start, end, selections) ==
    \E selection \in selections :
        /\ start <= selection.start
        /\ end >= selection.end
        /\ SkipTake(phrase.str, selection.start - start,
                    selection.end - selection.start) # selection.phrase

RECURSIVE BestPhraseLoop_LastOnTies(_, _, _, _, _, _, _)
BestPhraseLoop_LastOnTies(phrases, i, start, end, selections, max_freq, best_phrase) ==
    IF i > Len(phrases) THEN best_phrase
    ELSE IF SelectionRejects(phrases[i], start, end, selections)
         THEN BestPhraseLoop_LastOnTies(phrases, i + 1, start, end, selections,
                                        max_freq, best_phrase)
         ELSE IF best_phrase = None \/ phrases[i].freq >= max_freq
              THEN BestPhraseLoop_LastOnTies(phrases, i + 1, start, end,
                                             selections, phrases[i].freq,
                                             Some(phrases[i]))
              ELSE BestPhraseLoop_LastOnTies(phrases, i + 1, start, end,
                                             selections, max_freq, best_phrase)

\* the 'next_phrase loop from phrase number i on: best_phrase is an Option
RECURSIVE BestPhraseLoop(_, _, _, _, _, _, _)
BestPhraseLoop(phrases, i, start, end, selections, max_freq, best_phrase) ==
    IF i > Len(phrases) THEN best_phrase
    ELSE IF SelectionRejects(phrases[i], start, end, selections)
         THEN BestPhraseLoop(phrases, i + 1, start, end, selections,
                             max_freq, best_phrase)
         ELSE IF best_phrase = None \/ phrases[i].freq > max_freq
              THEN BestPhraseLoop(phrases, i + 1, start, end, selections,
                                  phrases[i].freq, Some(phrases[i]))
              ELSE BestPhraseLoop(phrases, i + 1, start, end, selections,
                                  max_freq, best_phrase)

find_best_phrase(d, start, syllables, selections, breaks) ==
    LET end == start + Len(syllables)
    IN  IF BreakForbids(start, end, breaks) THEN None
        ELSE BestPhraseLoop(lookup_phrase(d, syllables), 1, start, end,
                            selections, 0, None)

---------------------------------------------------------------------------
(* find_intervals                                                          *)

\* the two nested loops, from (begin, end) on
RECURSIVE FindIntervalsLoop(_, _, _, _, _)
FindIntervalsLoop(d, seq, begin, end, acc) ==
    LET n == Len(seq.syllables)
    IN  IF begin >= n THEN acc
        ELSE IF end > n THEN FindIntervalsLoop(d, seq, begin + 1, begin + 1, acc)
        ELSE LET best == find_best_phrase(d, begin,
                                          SubSeq(seq.syllables, begin + 1, end),
                                          seq.selections, seq.breaks)
             IN  FindIntervalsLoop(d, seq, begin, end + 1,
                    IF best # None
                    THEN Append(acc, [start |-> begin, end |-> end,
                                      phrase |-> best[1]])
                    ELSE acc)

find_intervals(d, seq) == FindIntervalsLoop(d, seq, 0, 0, <<>>)

---------------------------------------------------------------------------
(* PossiblePath: the four rules and the score                              *)

IntervalLen(it) == it.end - it.start

RECURSIVE SumOver(_, _)
\* sum of f[i] over the indices 1..k
SumOver(f, k) == IF k = 0 THEN 0 ELSE f[k] + SumOver(f, k - 1)

rule_largest_sum(path) ==
    SumOver([i \in 1..Len(path) |-> path[i].end - path[i].start], Len(path))

rule_largest_avgwordlen(path) ==
    IF path = <<>> THEN 0
    ELSE (6 * rule_largest_sum(path)) \div Len(path)

rule_smallest_lenvariance(path) ==
    LET len == Len(path)
        row(i) == SumOver([j \in 1..len |->
                              IF j > i
                              THEN AbsDiff(IntervalLen(path[i]), IntervalLen(path[j]))
                              ELSE 0], len)
    IN  0 - SumOver([i \in 1..len |-> row(i)], len)

rule_largest_freqsum(path) ==
    SumOver([i \in 1..Len(path) |->
                LET reduction_factor == IF IntervalLen(path[i]) = 1 THEN 512 ELSE 1
                IN  path[i].phrase.freq \div reduction_factor], Len(path))

score_LightVariance(path) ==
    1000 * rule_largest_sum(path)
    + 1000 * rule_largest_avgwordlen(path)
    + rule_smallest_lenvariance(path)
    + rule_largest_freqsum(path)

score(path) ==
    1000 * rule_largest_sum(path)
    + 1000 * rule_largest_avgwordlen(path)
    + 100 * rule_smallest_lenvariance(path)
    + rule_largest_freqsum(path)

---------------------------------------------------------------------------
(* find_best_path                                                          *)

\* intervals.sort_by(|a, b| a.end.cmp(&b.end)): a stable sort, so the
\* intervals of each end keep their order, ends ascending
RECURSIVE SortByEnd(_, _, _)
SortByEnd(ivs, e, len) ==
    IF e > len THEN <<>>
    ELSE SelectSeq(ivs, LAMBDA it : it.end = e) \o SortByEnd(ivs, e + 1, len)

\* the loop over the sorted intervals, from interval number i on
RECURSIVE BestPathLoop(_, _, _)
BestPathLoop(sorted, i, highest) ==
    IF i > Len(sorted) THEN highest
    ELSE LET interval == sorted[i]
             candidate_path == Append(highest[interval.start], interval)
         IN  IF score(highest[interval.end]) < score(candidate_path)
             THEN BestPathLoop(sorted, i + 1,
                               [highest EXCEPT ![interval.end] = candidate_path])
             ELSE BestPathLoop(sorted, i + 1, highest)

\* the table highest_score when the loop ends
HighestScore(len, ivs) ==
    BestPathLoop(SortByEnd(ivs, 0, len), 1, [k \in 0..len |-> <<>>])

find_best_path(len, ivs) == IntoIntervals(HighestScore(len, ivs)[len])

convert(d, seq) ==
    IF seq.syllables = <<>> THEN <<>>
    ELSE find_best_path(Len(seq.syllables), find_intervals(d, seq))

---------------------------------------------------------------------------
(* find_all_paths, with its memoization table                              *)

\* Graph::default(): the empty HashMap<(usize, usize), Option<Rc<Phrase>>>
EmptyGraph == [key \in {} |-> None]

OrInsertWith_Stale(g, d, sequence, start, end) ==
    IF <<start, end>> \in DOMAIN g THEN g
    ELSE g @@ (<<start, end>> :>
                 find_best_phrase(d, start,
                                  SubSeq(sequence.syllables, 1, end - start),
                                  sequence.selections, sequence.breaks))

\* graph.entry((start, end)).or_insert_with(|| find_best_phrase(..)): the
\* table after the call; the entry is then graph[<<start, end>>]
OrInsertWith(g, d, sequence, start, end) ==
    IF <<start, end>> \in DOMAIN g THEN g
    ELSE g @@ (<<start, end>> :>
                 find_best_phrase(d, start,
                                  SubSeq(sequence.syllables, start + 1, end),
                                  sequence.selections, sequence.breaks))

\* find_all_paths returns [result |-> Vec<PossiblePath>, graph |-> the table];
\* FindAllPathsLoop is its loop `for end in start..=target`, from `end` on.
\* prefix is an Option<PossiblePath>.
RECURSIVE find_all_paths(_, _, _, _, _, _)
RECURSIVE FindAllPathsLoop(_, _, _, _, _, _, _, _)
FindAllPathsLoop(g, d, sequence, start, target, prefix, end, acc) ==
    IF end > target THEN [result |-> acc, graph |-> g]
    ELSE LET g1 == OrInsertWith(g, d, sequence, start, end)
             entry == g1[<<start, end>>]
         IN  IF entry # None
             THEN LET prefix1 == Append(IF prefix = None THEN <<>> ELSE prefix[1],
                                        [start |-> start, end |-> end,
                                         phrase |-> entry[1]])
                      sub == find_all_paths(g1, d, sequence, end, target,
                                            Some(prefix1))
                  IN  FindAllPathsLoop(sub.graph, d, sequence, start, target,
                                       prefix, end + 1, acc \o sub.result)
             ELSE FindAllPathsLoop(g1, d, sequence, start, target, prefix,
                                   end + 1, acc)

\* start = target is reached with Some(prefix) only: convert_next returns
\* early on an empty input, and every recursive call passes Some
find_all_paths(g, d, sequence, start, target, prefix) ==
    IF start = target THEN [result |-> <<prefix[1]>>, graph |-> g]
    ELSE FindAllPathsLoop(g, d, sequence, start, target, prefix, start, <<>>)

---------------------------------------------------------------------------
(* PossibleInterval::contains, PossiblePath::contains, trim_paths          *)

IntervalContains(self, other) ==
    self.start <= other.start /\ self.end >= other.end

\* the `loop` for interval number sml of other (0-based, as big); the value
\* is big when the loop breaks, or -1 when it returns false
RECURSIVE ContainsLoop(_, _, _, _)
ContainsLoop(self, other, sml, big) ==
    IF big < Len(self) /\ self[big + 1].start < other[sml + 1].end
    THEN IF IntervalContains(self[big + 1], other[sml + 1])
         THEN big
         ELSE ContainsLoop(self, other, sml, big + 1)
    ELSE -1

RECURSIVE ContainsFrom(_, _, _, _)
ContainsFrom(self, other, sml, big) ==
    IF sml >= Len(other) THEN TRUE
    ELSE LET big1 == ContainsLoop(self, other, sml, big)
         IN  IF big1 = -1 THEN FALSE
             ELSE ContainsFrom(self, other, sml + 1, big1)

PathContains(self, other) == ContainsFrom(self, other, 0, 0)

\* the inner loop `for p in trimmed_paths`, from path number i on
RECURSIVE TrimScan(_, _, _, _, _)
TrimScan(trimmed, candidate, i, drop_candidate, keeper) ==
    IF i > Len(trimmed)
    THEN IF ~drop_candidate THEN Append(keeper, candidate) ELSE keeper
    ELSE LET p == trimmed[i]
         IN  IF drop_candidate \/ PathContains(p, candidate)
             THEN TrimScan(trimmed, candidate, i + 1, TRUE, Append(keeper, p))
             ELSE IF PathContains(candidate, p)
                  THEN TrimScan(trimmed, candidate, i + 1, drop_candidate, keeper)
                  ELSE TrimScan(trimmed, candidate, i + 1, drop_candidate,
                                Append(keeper, p))

RECURSIVE TrimLoop(_, _, _)
TrimLoop(ps, i, trimmed) ==
    IF i > Len(ps) THEN trimmed
    ELSE TrimLoop(ps, i + 1, TrimScan(trimmed, ps[i], 1, FALSE, <<>>))

trim_paths_KeepAll(ps) == ps

trim_paths(ps) == TrimLoop(ps, 1, <<>>)

---------------------------------------------------------------------------
(* convert_next                                                            *)

\* Vec::sort() with Ord for PossiblePath (the score alone): a stable sort,
\* built here by inserting each path behind the paths that do not score more
RECURSIVE InsertSorted(_, _)
InsertSorted(sorted, p) ==
    IF sorted = <<>> THEN <<p>>
    ELSE IF score(sorted[Len(sorted)]) <= score(p) THEN Append(sorted, p)
    ELSE Append(InsertSorted(SubSeq(sorted, 1, Len(sorted) - 1), p),
                sorted[Len(sorted)])

RECURSIVE SortLoop(_, _, _)
SortLoop(ps, i, sorted) ==
    IF i > Len(ps) THEN sorted
    ELSE SortLoop(ps, i + 1, InsertSorted(sorted, ps[i]))

sort(ps) == SortLoop(ps, 1, <<>>)

rev_Forward(ps) == ps

\* Iterator::rev
rev(ps) == [i \in 1..Len(ps) |-> ps[Len(ps) + 1 - i]]

\* Iterator::cycle().nth(n): the iterator starts over when it is exhausted;
\* an empty iterator yields None
cycle_nth_NoWrap(ps, n) ==
    IF ps = <<>> THEN None
    ELSE IF n < Len(ps) THEN Some(ps[n + 1])
    ELSE Some(ps[Len(ps)])

RECURSIVE cycle_nth(_, _)
cycle_nth(ps, n) ==
    IF ps = <<>> THEN None
    ELSE IF n < Len(ps) THEN Some(ps[n + 1])
    ELSE cycle_nth(ps, n - Len(ps))

\* the locals of convert_next on a non-empty input; picked = None is the
\* panic of expect("should have path")
ConvertNextRun(d, seq, n) ==
    LET found == find_all_paths(EmptyGraph, d, seq, 0, Len(seq.syllables), None)
        trimmed == sort(trim_paths(found.result))
        picked == cycle_nth(rev(trimmed), n)
    IN  [graph |-> found.graph, paths |-> found.result,
         trimmed_paths |-> trimmed, picked |-> picked]

\* what convert_next returns: panic, or the intervals
convert_next(d, seq, n) ==
    IF seq.syllables = <<>> THEN [panic |-> FALSE, intervals |-> <<>>]
    ELSE LET run == ConvertNextRun(d, seq, n)
         IN  IF run.picked = None THEN [panic |-> TRUE, intervals |-> <<>>]
             ELSE [panic |-> FALSE, intervals |-> IntoIntervals(run.picked[1])]

---------------------------------------------------------------------------
(* The inputs: a dictionary and a ChineseSequence.                         *)
(* The syllable at position i (0-based) is the number i + 1, so that every *)
(* sub-range of the input is a dictionary key of its own.                  *)

SyllablesOf(n) == [i \in 1..n |-> i]

\* the sub-ranges [i, j) of an input of n syllables
Ranges(n) == {r \in (0..n) \X (0..n) : r[1] < r[2]}

\* the syllables of the range r
KeyOf(r) == [k \in 1..(r[2] - r[1]) |-> r[1] + k]

Uniform(c, len) == [i \in 1..len |-> c]

\* Shape family: the dictionary holds one phrase for each range of mask,
\* of frequency LowFreq, but HighFreq for the key hot; no constraints.
ShapeDict(mask, hot) ==
    [key \in {KeyOf(r) : r \in mask} |->
        <<[str |-> Uniform("a", Len(key)),
           freq |-> IF key = hot THEN HighFreq ELSE LowFreq]>>]

ShapeInputs ==
    {[dict |-> ShapeDict(in[2], in[3]),
      segment |-> [syllables |-> SyllablesOf(in[1]), selections |-> {},
                   breaks |-> {}]] :
        in \in {x \in UNION {{<<n, mask, hot>> :
                                 mask \in SUBSET Ranges(n),
                                 hot \in {KeyOf(r) : r \in Ranges(n)} \cup {<<>>}} :
                             n \in 0..MaxLen} :
                   x[3] = <<>> \/ x[3] \in {KeyOf(r) : r \in x[2]}}}

\* Constrained family: the dictionary holds two phrases for every range,
\* "a..a" of frequency f1 before "b..b" of frequency f2; the input carries
\* breaks and pairwise non-overlapping selections over the characters
\* SelectionChars, each of as many characters as its range.
FullDict(n, f1, f2) ==
    [key \in {KeyOf(r) : r \in Ranges(n)} |->
        <<[str |-> Uniform("a", Len(key)), freq |-> f1],
          [str |-> Uniform("b", Len(key)), freq |-> f2]>>]

FreqPairs == {<<HighFreq, LowFreq>>, <<LowFreq, HighFreq>>,
              <<LowFreq, LowFreq>>, <<0, 0>>}

SelectionChars == {"a", "b", "c"}

AllSelections(n) ==
    UNION {{[start |-> r[1], end |-> r[2], phrase |-> ph] :
               ph \in [1..(r[2] - r[1]) -> SelectionChars]} : r \in Ranges(n)}

Overlap(s, t) == s.start < t.end /\ t.start < s.end

RECURSIVE SelectionSets(_, _)
\* the sets of at most k pairwise non-overlapping selections
SelectionSets(n, k) ==
    IF k = 0 THEN {{}}
    ELSE LET prev == SelectionSets(n, k - 1)
         IN  prev \cup
             UNION {{S \cup {s} : s \in {t \in AllSelections(n) :
                                            \A u \in S : ~Overlap(t, u)}} :
                    S \in prev}

ConstrainedInputs ==
    UNION {{[dict |-> FullDict(n, fp[1], fp[2]),
             segment |-> [syllables |-> SyllablesOf(n), selections |-> sels,
                          breaks |-> brs]] :
               fp \in FreqPairs, sels \in SelectionSets(n, MaxSelections),
               brs \in SUBSET (1..(n - 1))} :
           n \in 1..MaxConstrainedLen}

---------------------------------------------------------------------------
(* The engine: new(dict), then calls of convert and convert_next.          *)

Init ==
    /\ \E in \in ShapeInputs \cup ConstrainedInputs :
          /\ dict = in.dict
          /\ segment = in.segment
    /\ pc = "ready"
    /\ next = 0
    /\ intervals = <<>>
    /\ highest_score = <<>>
    /\ graph = EmptyGraph
    /\ paths = <<>>
    /\ trimmed_paths = <<>>
    /\ result = <<>>

\* fn convert(&self, segment)
Convert ==
    /\ pc = "ready"
    /\ pc' = "convert"
    /\ next' = 0
    /\ IF segment.syllables = <<>>
       THEN /\ intervals' = <<>>
            /\ highest_score' = <<>>
            /\ result' = <<>>
       ELSE LET len == Len(segment.syllables)
                ivs == find_intervals(dict, segment)
                highest == HighestScore(len, ivs)
            IN  /\ intervals' = ivs
                /\ highest_score' = highest
                /\ result' = IntoIntervals(highest[len])
    /\ UNCHANGED <<dict, segment, graph, paths, trimmed_paths>>

\* fn convert_next(&self, segment, next)
ConvertNext(n) ==
    /\ pc = "ready"
    /\ next' = n
    /\ IF segment.syllables = <<>>
       THEN /\ pc' = "convert_next"
            /\ UNCHANGED <<graph, paths, trimmed_paths, result>>
       ELSE LET run == ConvertNextRun(dict, segment, n)
            IN  /\ graph' = run.graph
                /\ paths' = run.paths
                /\ trimmed_paths' = run.trimmed_paths
                /\ pc' = IF run.picked = None THEN "panic" ELSE "convert_next"
                /\ result' = IF run.picked = None THEN <<>>
                             ELSE IntoIntervals(run.picked[1])
    /\ UNCHANGED <<dict, segment, intervals, highest_score>>

\* the call has returned: its locals and its result are dropped, and the
\* engine, which keeps no state between calls, takes the next call
Return ==
    /\ pc \in {"convert", "convert_next"}
    /\ pc' = "ready"
    /\ next' = 0
    /\ intervals' = <<>>
    /\ highest_score' = <<>>
    /\ graph' = EmptyGraph
    /\ paths' = <<>>
    /\ trimmed_paths' = <<>>
    /\ result' = <<>>
    /\ UNCHANGED <<dict, segment>>

Next ==
    \/ Convert
    \/ \E n \in 0..MaxNext : ConvertNext(n)
    \/ Return

Spec == Init /\ [][Next]_vars

\* the same engine on the inputs whose dictionary holds a phrase for every
\* single syllable and that carry no constraint: every position of the
\* input is then the end of a cover path
InitAllSingles ==
    /\ \E in \in {x \in ShapeInputs :
                     \A i \in 1..Len(x.segment.syllables) :
                         <<x.segment.syllables[i]>> \in DOMAIN x.dict} :
          /\ dict = in.dict
          /\ segment = in.segment
    /\ pc = "ready"
    /\ next = 0
    /\ intervals = <<>>
    /\ highest_score = <<>>
    /\ graph = EmptyGraph
    /\ paths = <<>>
    /\ trimmed_paths = <<>>
    /\ result = <<>>

SpecAllSingles == InitAllSingles /\ [][Next]_vars

---------------------------------------------------------------------------
(* Notions the properties are stated with.                                 *)

NumSyllables == Len(segment.syllables)

\* the candidate grid of the input
Grid == find_intervals(dict, segment)

\* the well-formed cover paths of [0, k) over the grid ivs, built from
\* their last interval backwards
RECURSIVE CoverPaths(_, _)
CoverPaths(ivs, k) ==
    IF k = 0 THEN {<<>>}
    ELSE UNION {{Append(p, ivs[i]) : p \in CoverPaths(ivs, ivs[i].start)} :
                i \in {j \in 1..Len(ivs) :
                          ivs[j].end = k /\ ivs[j].start < ivs[j].end}}

CoverExists(ivs, k) == CoverPaths(ivs, k) # {}

\* a list of intervals that covers [0, n) contiguously
IsContiguousCover(r, n) ==
    /\ r # <<>>
    /\ r[1].start = 0
    /\ \A i \in 1..(Len(r) - 1) : r[i].end = r[i + 1].start
    /\ r[Len(r)].end = n

SeqToSet(q) == {q[i] : i \in 1..Len(q)}

---------------------------------------------------------------------------
(* C1: whenever a well-formed cover path of [0, n) exists over the         *)
(* candidate grid (n > 0), the list convert returns is a contiguous cover  *)
(* of [0, n): it starts at 0, each interval ends where the next starts,    *)
(* and the last ends at n.                                                 *)
C1_ConvertReturnsCover ==
    (pc = "convert" /\ NumSyllables > 0 /\ CoverExists(intervals, NumSyllables))
        => IsContiguousCover(result, NumSyllables)

(* C2: when n > 0 and no well-formed cover path of [0, n) exists over the  *)
(* candidate grid, highest_score[n] is still the default empty path when   *)
(* find_best_path ends, and convert returns the empty list.                *)
C2_NoCoverReturnsEmpty ==
    (pc = "convert" /\ NumSyllables > 0 /\ ~CoverExists(intervals, NumSyllables))
        => (highest_score[NumSyllables] = <<>> /\ result = <<>>)

(* C3: for every break b of the input, no interval returned by convert or  *)
(* by convert_next (any next) has start < b < end; an interval may start   *)
(* or end at b.                                                            *)
C3_NoIntervalAcrossBreak ==
    \A b \in segment.breaks :
        \A i \in 1..Len(result) :
            ~(result[i].start < b /\ b < result[i].end)

\* convert_next returned several intervals although the dictionary holds a
\* phrase for the two syllables around a break
C3_Witness ==
    /\ pc = "convert_next"
    /\ next > 0
    /\ Len(result) >= 2
    /\ \E b \in segment.breaks :
          /\ lookup_phrase(dict, SubSeq(segment.syllables, b, b + 1)) # <<>>
          /\ \E i \in 1..Len(result) : result[i].end = b

(* C4: for every selection s of a valid input, whenever convert returns a  *)
(* non-empty list, the returned interval that covers position s.start is s *)
(* itself or a super-interval [a, b) of s whose characters at the offsets  *)
(* [s.start - a, s.end - a) are s.phrase.                                  *)
C4_SelectionsHonoured ==
    (pc = "convert" /\ result # <<>>)
        => \A s \in segment.selections :
              \E i \in 1..Len(result) :
                  /\ result[i].start <= s.start
                  /\ s.start < result[i].end
                  /\ \/ result[i] = s
                     \/ /\ result[i].end >= s.end
                        /\ SkipTake(result[i].phrase, s.start - result[i].start,
                                    s.end - s.start) = s.phrase


(* C5: convert returns the highest-scoring cover path: when a cover        *)
(* exists, the score of the path convert returns is at least the score of  *)
(* every well-formed cover path of [0, n) over the candidate grid.         *)
C5_ConvertIsOptimal ==
    (pc = "convert" /\ NumSyllables > 0 /\ CoverExists(intervals, NumSyllables))
        => \A p \in CoverPaths(intervals, NumSyllables) :
              score(highest_score[NumSyllables]) >= score(p)

\* the dictionary offers a phrase for every single syllable of the input
DictionaryCoversSingles ==
    \A i \in 1..NumSyllables :
        lookup_phrase(dict, <<segment.syllables[i]>>) # <<>>

(* C6: if the dictionary offers a phrase for every single syllable of the  *)
(* input (n > 0), convert_next never reaches the "should have path" panic, *)
(* whatever the selections and breaks; it panics only when the trimmed     *)
(* path list is empty and n > 0.                                           *)
C6_NeverPanicsOnSingles ==
    /\ (NumSyllables > 0 /\ DictionaryCoversSingles) => pc # "panic"
    /\ pc = "panic" => (trimmed_paths = <<>> /\ NumSyllables > 0)

\* the path convert returns is among the paths the trimmer kept
ConvertPathIsKept ==
    \E i \in 1..Len(trimmed_paths) :
        IntoIntervals(trimmed_paths[i]) = convert(dict, segment)

(* C7 as stated: whenever the path convert returns is among the paths      *)
(* kept by the trimmer, convert_next(seq, 0) returns the same list of      *)
(* intervals as convert(seq).                                              *)
C7_NextZeroAgrees ==
    (pc = "convert_next" /\ next = 0 /\ ConvertPathIsKept)
        => result = convert(dict, segment)

(* C7 amended: whenever the path convert returns is among the paths kept   *)
(* by the trimmer and scores strictly more than every other kept path,     *)
(* convert_next(seq, 0) returns the same list of intervals as convert(seq).*)
C7_NextZeroAgreesWhenStrictlyBest ==
    (pc = "convert_next" /\ next = 0 /\ NumSyllables > 0)
        => \A i \in 1..Len(trimmed_paths) :
              (/\ IntoIntervals(trimmed_paths[i]) = convert(dict, segment)
               /\ \A j \in 1..Len(trimmed_paths) :
                     j # i => score(trimmed_paths[j]) < score(trimmed_paths[i]))
                  => result = convert(dict, segment)

\* convert_next(seq, 0) chose among three kept paths the one convert
\* returns, which scores strictly more than the others
C7_Witness ==
    /\ pc = "convert_next"
    /\ next = 0
    /\ Len(trimmed_paths) >= 3
    /\ result = convert(dict, segment)
    /\ \E i \in 1..Len(trimmed_paths) :
          /\ IntoIntervals(trimmed_paths[i]) = result
          /\ \A j \in 1..Len(trimmed_paths) :
                j # i => score(trimmed_paths[j]) < score(trimmed_paths[i])

(* C8: with m >= 1 the number of paths left after trimming,                *)
(* convert_next(seq, k) returns entry k mod m of those paths ordered by    *)
(* score descending, so convert_next(seq, k) = convert_next(seq, k + m),   *)
(* and the path at index i scores at least as much as the path at i + 1.   *)
C8_CyclingWraps ==
    (pc = "convert_next" /\ NumSyllables > 0)
        => LET m == Len(trimmed_paths)
               descending == [i \in 1..m |-> trimmed_paths[m + 1 - i]]
           IN  /\ m >= 1
               /\ result = IntoIntervals(descending[(next % m) + 1])
               /\ convert_next(dict, segment, next + m)
                     = [panic |-> FALSE, intervals |-> result]
               /\ \A i \in 1..(m - 1) :
                     score(descending[i]) >= score(descending[i + 1])

\* a call whose index wrapped around a list of at least two paths of
\* different scores
C8_Witness ==
    /\ pc = "convert_next"
    /\ Len(trimmed_paths) >= 2
    /\ next >= Len(trimmed_paths)
    /\ next % Len(trimmed_paths) # 0
    /\ score(trimmed_paths[1]) < score(trimmed_paths[Len(trimmed_paths)])

\* P is a strict refinement of another enumerated path
ContainedByAnother(ps, i) ==
    \E j \in 1..Len(ps) : ps[j] # ps[i] /\ PathContains(ps[j], ps[i])

(* C9: of the paths find_all_paths enumerates, in its order, trim_paths    *)
(* keeps exactly those that no other enumerated path contains, in their    *)
(* enumeration order; no kept path contains another kept path and every    *)
(* dropped path is contained by some kept path.                            *)
C9_TrimKeepsMaximalPaths ==
    (pc = "convert_next" /\ NumSyllables > 0)
        => LET kept == trim_paths(paths)
               maximal == {i \in 1..Len(paths) : ~ContainedByAnother(paths, i)}
               pick(i) == CHOOSE k \in maximal :
                             Cardinality({x \in maximal : x <= k}) = i
           IN  /\ kept = [i \in 1..Cardinality(maximal) |-> paths[pick(i)]]
               /\ \A i, j \in 1..Len(kept) :
                     i # j => ~PathContains(kept[i], kept[j])
               /\ \A i \in 1..Len(paths) :
                     paths[i] \notin SeqToSet(kept)
                        => \E j \in 1..Len(kept) : PathContains(kept[j], paths[i])
               /\ SeqToSet(trimmed_paths) = SeqToSet(kept)

\* the trimmer dropped some enumerated paths and kept at least two
C9_Witness ==
    /\ pc = "convert_next"
    /\ Len(trimmed_paths) >= 2
    /\ Len(paths) >= Len(trimmed_paths) + 2

(* C10 as stated: for any two well-formed cover paths of the same input,   *)
(* the one with the larger R2 has the strictly larger score whatever R3    *)
(* and R4 are, and of two with equal R2 the one with the larger R3 has the *)
(* strictly larger score whatever R4 is.                                   *)
C10_ScoreIsLexicographic ==
    \A i, j \in 1..Len(paths) :
        LET p == paths[i]
            q == paths[j]
        IN  /\ rule_largest_avgwordlen(p) > rule_largest_avgwordlen(q)
                  => score(p) > score(q)
            /\ (/\ rule_largest_avgwordlen(p) = rule_largest_avgwordlen(q)
                /\ rule_smallest_lenvariance(p) > rule_smallest_lenvariance(q))
                  => score(p) > score(q)

\* the R4 values of two paths differ by less than the weight of R3
FreqSumsClose(p, q) ==
    AbsDiff(rule_largest_freqsum(p), rule_largest_freqsum(q)) < 100

(* C10 amended: for any two well-formed cover paths of the same input of   *)
(* at most MaxLen syllables whose R4 values differ by less than 100, the   *)
(* one with the larger R2 has the strictly larger score, and of two with   *)
(* equal R2 the one with the larger R3 has the strictly larger score.      *)
C10_ScoreIsLexicographicForCloseFreqSums ==
    \A i, j \in 1..Len(paths) :
        LET p == paths[i]
            q == paths[j]
        IN  FreqSumsClose(p, q)
              => /\ rule_largest_avgwordlen(p) > rule_largest_avgwordlen(q)
                       => score(p) > score(q)
                 /\ (/\ rule_largest_avgwordlen(p) = rule_largest_avgwordlen(q)
                     /\ rule_smallest_lenvariance(p) > rule_smallest_lenvariance(q))
                       => score(p) > score(q)

\* two enumerated paths of equal R2 where the one with the larger R3 has
\* the smaller R4, and two of different R2 where the one with the larger
\* R2 has the smaller R4, the R4 values being close
C10_Witness ==
    /\ pc = "convert_next"
    /\ \E i, j \in 1..Len(paths) :
          /\ FreqSumsClose(paths[i], paths[j])
          /\ rule_largest_avgwordlen(paths[i]) = rule_largest_avgwordlen(paths[j])
          /\ rule_smallest_lenvariance(paths[i]) > rule_smallest_lenvariance(paths[j])
          /\ rule_largest_freqsum(paths[i]) < rule_largest_freqsum(paths[j])
    /\ \E i, j \in 1..Len(paths) :
          /\ FreqSumsClose(paths[i], paths[j])
          /\ rule_largest_avgwordlen(paths[i]) > rule_largest_avgwordlen(paths[j])
          /\ rule_largest_freqsum(paths[i]) < rule_largest_freqsum(paths[j])

\* no path occurs twice in the list ps
NoDuplicates(ps) == \A i, j \in 1..Len(ps) : i # j => ps[i] # ps[j]

(* C11: find_all_paths(graph, seq, 0, n, None) returns, exactly once each, *)
(* every sequence of intervals with start < end that is contiguous, starts *)
(* at 0, ends at n and whose every interval carries the candidate phrase   *)
(* of find_best_phrase for its range, and nothing else; every entry        *)
(* (start, end) of the memoization table equals what an uncached           *)
(* find_best_phrase call returns for that range.                           *)
C11_AllPathsAreTheCovers ==
    (pc \in {"convert_next", "panic"} /\ NumSyllables > 0)
        => /\ NoDuplicates(paths)
           /\ SeqToSet(paths) = CoverPaths(Grid, NumSyllables)
           /\ \A key \in DOMAIN graph :
                 graph[key] = find_best_phrase(dict, key[1],
                                  SubSeq(segment.syllables, key[1] + 1, key[2]),
                                  segment.selections, segment.breaks)

\* several paths were enumerated, two of them reach the same last interval
\* through different prefixes (its table entry was asked for twice), and
\* the table holds a range without a candidate
C11_Witness ==
    /\ pc = "convert_next"
    /\ Len(paths) >= 3
    /\ \E i, j \in 1..Len(paths) :
          /\ paths[i] # paths[j]
          /\ paths[i][Len(paths[i])] = paths[j][Len(paths[j])]
          /\ paths[i][Len(paths[i])].start >= 2
    /\ \E key \in DOMAIN graph : key[1] < key[2] /\ graph[key] = None

\* the phrase agrees with every selection that is a sub-interval of
\* [start, end): its characters at the offsets of the selection are the
\* selection's phrase
AgreesWithSelections(phrase, start, end) ==
    \A s \in segment.selections :
        (start <= s.start /\ end >= s.end)
            => /\ Len(phrase.str) >= s.end - start
               /\ [k \in 1..(s.end - s.start) |->
                      phrase.str[s.start - start + k]] = s.phrase

\* what C12 says find_best_phrase returns for the range [start, end)
ExpectedBestPhrase(start, end) ==
    LET phrases == lookup_phrase(dict, SubSeq(segment.syllables, start + 1, end))
        surviving == {k \in 1..Len(phrases) :
                         AgreesWithSelections(phrases[k], start, end)}
    IN  IF \E b \in segment.breaks : start < b /\ b < end THEN None
        ELSE IF surviving = {} THEN None
        ELSE LET best == CHOOSE k \in surviving :
                            \A l \in surviving :
                                \/ phrases[l].freq < phrases[k].freq
                                \/ phrases[l].freq = phrases[k].freq /\ k <= l
             IN  Some(phrases[best])

(* C12: find_best_phrase(start, syllables, selections, breaks), with       *)
(* end = start + |syllables|, returns none when some break b has           *)
(* start < b < end; otherwise, among the dictionary phrases for those      *)
(* syllables that agree with every selection s with start <= s.start and   *)
(* end >= s.end, the one of the highest freq, the first in dictionary      *)
(* order when frequencies tie (also when they are all 0), and none when no *)
(* phrase survives. Checked on every call convert_next makes (the entries  *)
(* of graph) and on every call convert makes (the intervals pushed).       *)
C12_BestPhraseIsFirstOfHighestFreq ==
    /\ pc \in {"convert_next", "panic"}
          => \A key \in DOMAIN graph :
                graph[key] = ExpectedBestPhrase(key[1], key[2])
    /\ (pc = "convert" /\ NumSyllables > 0)
          => /\ \A begin \in 0..(NumSyllables - 1) :
                   \A end \in begin..NumSyllables :
                       LET expected == ExpectedBestPhrase(begin, end)
                       IN  IF expected = None
                           THEN \A i \in 1..Len(intervals) :
                                   ~(intervals[i].start = begin
                                     /\ intervals[i].end = end)
                           ELSE [start |-> begin, end |-> end,
                                 phrase |-> expected[1]] \in SeqToSet(intervals)
             /\ \A i \in 1..Len(intervals) :
                   Some(intervals[i].phrase)
                      = ExpectedBestPhrase(intervals[i].start, intervals[i].end)

\* one call of convert_next asked for a range whose two phrases tie at
\* freq 0 and got the first, for a range whose first phrase a selection
\* rejects and got the second, and for a range with phrases that a break
\* forbids and got none
C12_Witness ==
    /\ pc = "convert_next"
    /\ \E key \in DOMAIN graph :
          LET phrases == lookup_phrase(dict, SubSeq(segment.syllables,
                                                   key[1] + 1, key[2]))
          IN  /\ Len(phrases) = 2
              /\ phrases[1].freq = 0
              /\ phrases[2].freq = 0
              /\ graph[key] = Some(phrases[1])
    /\ \E key \in DOMAIN graph :
          LET phrases == lookup_phrase(dict, SubSeq(segment.syllables,
                                                   key[1] + 1, key[2]))
          IN  /\ Len(phrases) = 2
              /\ ~AgreesWithSelections(phrases[1], key[1], key[2])
              /\ graph[key] = Some(phrases[2])
    /\ \E key \in DOMAIN graph :
          /\ lookup_phrase(dict, SubSeq(segment.syllables,
                                        key[1] + 1, key[2])) # <<>>
          /\ \E b \in segment.breaks : key[1] < b /\ b < key[2]
          /\ graph[key] = None

===========================================================================
